---------------------------- MODULE Spec2Model ----------------------------
(***************************************************************************)
(* A model of the AArch64 Python-subset compiler of src/compiler.py:       *)
(* tokens -> Parser -> IRGenerator -> AssemblyGenerator, and the execution *)
(* of the emitted text section on a small AArch64 machine.                 *)
(*                                                                         *)
(* Text is modelled as sequences of one-character strings, so that the     *)
(* length of a literal and the bytes of a decimal number are computed, not *)
(* assumed.  A label f"string_{n}" is the pair <<"string_", n>>.           *)
(***************************************************************************)
EXTENDS Integers, Sequences, FiniteSets, TLC

VARIABLES
    tokens,         \* Parser.tokens: the token list handed to the parser
    pos,            \* Parser.pos
    statements,     \* Parser.parse's local list of parsed statements
    ir,             \* the IRGenerator instance (None before it is created)
    stmt,           \* index of the statement IRGenerator.generate lowers next
    pc,             \* stage of compile_to_assembly
    result,         \* what compile_to_assembly returned or raised
    job,            \* number of the compile_to_assembly call in progress
    first,          \* result of the first call, kept by the caller
    m,              \* the machine that runs the emitted program
    source_code,    \* compile_to_assembly's argument, as a list of raw lines
    source_lines,   \* its stripped, non-blank lines
    line_no,        \* number of lines the comment-stripping loop has taken
    in_multiline_comment,   \* the skip mode of that loop
    all_tokens      \* the tokens collected from the lines, without EOF

\* the variables of the line pass of compile_to_assembly
front == <<source_code, source_lines, line_no, in_multiline_comment, all_tokens>>

vars == <<tokens, pos, statements, ir, stmt, pc, result, job, first, m,
          source_code, source_lines, line_no, in_multiline_comment, all_tokens>>

----------------------------------------------------------------------------
(* Bounds of the model.                                                    *)

\* Longest program, in statements, of the compilation specifications.
MaxStmts == 3

\* Longest program, in statements, of the execution specification.
MaxRunStmts == 2

----------------------------------------------------------------------------
(* Lexemes: the Lexer's scanners over a piece of source text.              *)

None == [kind |-> "None"]

Digits == <<"0", "1", "2", "3", "4", "5", "6", "7", "8", "9">>

IsDigit(c) == \E i \in 1..10 : Digits[i] = c

DigitVal(c) == (CHOOSE i \in 1..10 : Digits[i] = c) - 1

\* Lexer.get_string: text[1] is the opening quote; every character up to the
\* next double quote (or the end of the text) is taken as it stands.
RECURSIVE get_string_from(_, _)
get_string_from(text, i) ==
    IF i > Len(text) \/ text[i] = "\"" THEN <<>>
    ELSE <<text[i]>> \o get_string_from(text, i + 1)

get_string(text) == get_string_from(text, 2)

\* Lexer.get_integer: the leading run of decimal digits.
RECURSIVE get_integer(_)
get_integer(text) ==
    IF text = <<>> \/ ~IsDigit(Head(text)) THEN <<>>
    ELSE <<Head(text)>> \o get_integer(Tail(text))

\* Numbers below 2^64 (an integer of the source, the value of a register) are
\* written as four 16-bit limbs, the least significant first.
Limb == 65536

\* the number n, for n < 2^31
W(n) == <<n % Limb, n \div Limb, 0, 0>>

\* the number as an integer where it is below 2^31, else -1
Small(w) == IF w[3] = 0 /\ w[4] = 0 /\ w[2] < 32768 THEN w[1] + Limb * w[2] ELSE -1

\* a + b modulo 2^64
WAdd(a, b) ==
    LET s1 == a[1] + b[1]
        s2 == a[2] + b[2] + (s1 \div Limb)
        s3 == a[3] + b[3] + (s2 \div Limb)
        s4 == a[4] + b[4] + (s3 \div Limb)
    IN  <<s1 % Limb, s2 % Limb, s3 % Limb, s4 % Limb>>

\* a - b modulo 2^64
WSub(a, b) ==
    WAdd(WAdd(a, <<Limb - 1 - b[1], Limb - 1 - b[2], Limb - 1 - b[3], Limb - 1 - b[4]>>),
         W(1))

\* a * k modulo 2^64, for a one-limb k below 2^15
WMul(a, k) ==
    LET p1 == a[1] * k
        p2 == a[2] * k + (p1 \div Limb)
        p3 == a[3] * k + (p2 \div Limb)
        p4 == a[4] * k + (p3 \div Limb)
    IN  <<p1 % Limb, p2 % Limb, p3 % Limb, p4 % Limb>>

\* the quotient of a by a one-limb d, 0 < d < 2^15
WDiv(a, d) ==
    LET t3 == (a[4] % d) * Limb + a[3]
        t2 == (t3 % d) * Limb + a[2]
        t1 == (t2 % d) * Limb + a[1]
    IN  <<t1 \div d, t2 \div d, t3 \div d, a[4] \div d>>

\* int(token.value) of Parser.parse_expression
RECURSIVE IntOf(_)
IntOf(ds) ==
    IF ds = <<>> THEN W(0)
    ELSE CHOOSE v \in { WAdd(WMul(prefix, 10), W(DigitVal(ds[Len(ds)]))) :
                           prefix \in {IntOf(SubSeq(ds, 1, Len(ds) - 1))} } : TRUE

\* Token(type, value); value is the empty text where the code leaves it None
Token(type, value) == [type |-> type, value |-> value]

Tok(type) == Token(type, <<>>)

----------------------------------------------------------------------------
(* Parser                                                                  *)

SyntaxError == [status |-> "error", exc |-> "SyntaxError"]

\* the same, with the token kind consume() names as expected
Expected(type) == [status |-> "error", exc |-> "SyntaxError", expected |-> type]

IndexError == [status |-> "error", exc |-> "IndexError"]

\* consume that takes the current token whatever its type
consume_any(toks, p, type) ==
    IF p + 1 > Len(toks) THEN IndexError
    ELSE [status |-> "ok", pos |-> p + 1]

\* Parser.consume(token_type) at position p: the new position or the error
consume(toks, p, type) ==
    IF p + 1 > Len(toks) THEN IndexError
    ELSE IF toks[p + 1].type # type THEN Expected(type)
    ELSE [status |-> "ok", pos |-> p + 1]

\* Parser.parse_expression at 0-based position p:
\* [status, node, pos] or the error raised
RECURSIVE parse_expression(_, _)
parse_expression(toks, p) ==
    IF p + 1 > Len(toks) THEN IndexError
    ELSE LET token == toks[p + 1] IN
      CASE token.type = "INTEGER" ->
             [status |-> "ok", pos |-> p + 1,
              node |-> [kind |-> "IntegerLiteral", value |-> IntOf(token.value)]]
        [] token.type = "STRING" ->
             [status |-> "ok", pos |-> p + 1,
              node |-> [kind |-> "StringLiteral", value |-> token.value]]
        [] token.type = "IDENTIFIER" ->
             [status |-> "ok", pos |-> p + 1,
              node |-> [kind |-> "Variable", name |-> token.value]]
        [] token.type = "INPUT" ->
             LET lp == consume(toks, p + 1, "LPAREN") IN
             IF lp.status # "ok" THEN lp
             ELSE LET prompt == parse_expression(toks, lp.pos) IN
                  IF prompt.status # "ok" THEN prompt
                  ELSE LET rp == consume(toks, prompt.pos, "RPAREN") IN
                       IF rp.status # "ok" THEN rp
                       ELSE [status |-> "ok", pos |-> rp.pos,
                             node |-> [kind |-> "Input", prompt |-> prompt.node]]
        [] OTHER -> SyntaxError

\* parse_statement with an assignment whose right-hand side may go on with a
\* Plus token and a second operand
parse_statement_plus(toks, p) ==
    IF p + 1 > Len(toks) THEN IndexError
    ELSE LET token == toks[p + 1] IN
      CASE token.type = "PRINT" ->
             LET lp == consume(toks, p + 1, "LPAREN") IN
             IF lp.status # "ok" THEN lp
             ELSE LET expr == parse_expression(toks, lp.pos) IN
                  IF expr.status # "ok" THEN expr
                  ELSE LET rp == consume(toks, expr.pos, "RPAREN") IN
                       IF rp.status # "ok" THEN rp
                       ELSE [status |-> "ok", pos |-> rp.pos,
                             node |-> [kind |-> "PrintStatement",
                                       expression |-> expr.node]]
        [] token.type = "IDENTIFIER" ->
             LET eq == consume(toks, p + 1, "EQUALS") IN
             IF eq.status # "ok" THEN eq
             ELSE LET value == parse_expression(toks, eq.pos) IN
                  IF value.status # "ok" THEN value
                  ELSE IF toks[value.pos + 1].type # "PLUS"
                  THEN [status |-> "ok", pos |-> value.pos,
                        node |-> [kind |-> "Assignment",
                                  variable |-> [kind |-> "Variable",
                                                name |-> token.value],
                                  value |-> value.node]]
                  ELSE LET right == parse_expression(toks, value.pos + 1) IN
                       IF right.status # "ok" THEN right
                       ELSE [status |-> "ok", pos |-> right.pos,
                             node |-> [kind |-> "Assignment",
                                       variable |-> [kind |-> "Variable",
                                                     name |-> token.value],
                                       value |-> [kind |-> "BinaryOp",
                                                  left |-> value.node,
                                                  right |-> right.node,
                                                  op |-> "+"]]]
        [] OTHER -> SyntaxError

\* Parser.parse_statement at 0-based position p
parse_statement(toks, p) ==
    IF p + 1 > Len(toks) THEN IndexError
    ELSE LET token == toks[p + 1] IN
      CASE token.type = "PRINT" ->
             LET lp == consume(toks, p + 1, "LPAREN") IN
             IF lp.status # "ok" THEN lp
             ELSE LET expr == parse_expression(toks, lp.pos) IN
                  IF expr.status # "ok" THEN expr
                  ELSE LET rp == consume(toks, expr.pos, "RPAREN") IN
                       IF rp.status # "ok" THEN rp
                       ELSE [status |-> "ok", pos |-> rp.pos,
                             node |-> [kind |-> "PrintStatement",
                                       expression |-> expr.node]]
        [] token.type = "IDENTIFIER" ->
             LET eq == consume(toks, p + 1, "EQUALS") IN
             IF eq.status # "ok" THEN eq
             ELSE LET value == parse_expression(toks, eq.pos) IN
                  IF value.status # "ok" THEN value
                  ELSE [status |-> "ok", pos |-> value.pos,
                        node |-> [kind |-> "Assignment",
                                  variable |-> [kind |-> "Variable",
                                                name |-> token.value],
                                  value |-> value.node]]
        [] OTHER -> SyntaxError

----------------------------------------------------------------------------
(* Lexer.tokenize                                                          *)

\* the letters of the texts the model reads
Letters == {"a", "h", "i", "n", "p", "r", "t", "u", "x"}

IsSpace(c) == c = " "

IsAlpha(c) == c \in Letters

\* Lexer.get_identifier: the leading run of letters, digits and underscores
RECURSIVE get_identifier(_)
get_identifier(text) ==
    IF text = <<>> \/ ~(IsAlpha(Head(text)) \/ IsDigit(Head(text)) \/ Head(text) = "_")
    THEN <<>>
    ELSE <<Head(text)>> \o get_identifier(Tail(text))

\* the token of an identifier: the keywords print and input, or a name
Keyword(identifier) ==
    CASE identifier = <<"p", "r", "i", "n", "t">> -> Tok("PRINT")
      [] identifier = <<"i", "n", "p", "u", "t">> -> Tok("INPUT")
      [] OTHER -> Token("IDENTIFIER", identifier)

\* the loop of Lexer.tokenize from the character at position i on:
\* [status |-> "ok", tokens], the last token EOF, or the error raised
RECURSIVE tokenize_from(_, _)
tokenize_from(text, i) ==
    IF i > Len(text) THEN [status |-> "ok", tokens |-> <<Tok("EOF")>>]
    ELSE LET c == text[i]
             rest == SubSeq(text, i, Len(text))
             Then(token, j) ==
                 LET t == tokenize_from(text, j) IN
                 IF t.status # "ok" THEN t
                 ELSE [status |-> "ok", tokens |-> <<token>> \o t.tokens]
         IN  CASE IsSpace(c) -> tokenize_from(text, i + 1)
               [] IsDigit(c) ->
                    Then(Token("INTEGER", get_integer(rest)), i + Len(get_integer(rest)))
               [] c = "+" -> Then(Tok("PLUS"), i + 1)
               [] c = "=" -> Then(Tok("EQUALS"), i + 1)
               [] c = "(" -> Then(Tok("LPAREN"), i + 1)
               [] c = ")" -> Then(Tok("RPAREN"), i + 1)
               [] c = "\"" ->
                    Then(Token("STRING", get_string(rest)), i + Len(get_string(rest)) + 2)
               [] IsAlpha(c) \/ c = "_" ->
                    Then(Keyword(get_identifier(rest)), i + Len(get_identifier(rest)))
               [] OTHER -> SyntaxError

tokenize(text) == tokenize_from(text, 1)

----------------------------------------------------------------------------
(* IRGenerator                                                             *)

EmptyMap == [v \in {} |-> None]

\* IRGeneratorInit with the label counter a class attribute: a new instance
\* goes on counting where the last one stopped
IRGeneratorInitSharedCounter ==
    [string_constants |-> <<>>, instructions |-> <<>>,
     string_count |-> IF ir = None THEN 0 ELSE ir.string_count,
     variables |-> [v \in {} |-> None]]

\* IRGenerator.__init__
IRGeneratorInit ==
    [string_constants |-> <<>>, instructions |-> <<>>,
     string_count |-> 0, variables |-> EmptyMap]

\* f"string_{n}" and f"input_result_{n}"
StringLabel(n) == <<"string_", n>>

InputLabel(n) == <<"input_result_", n>>

IRStringConstant(value, label) ==
    [kind |-> "IRStringConstant", value |-> value, label |-> label]

IRInteger(value) == [kind |-> "IRInteger", value |-> value]

IRAdd(left, right) == [kind |-> "IRAdd", left |-> left, right |-> right]

IRInput(prompt, res) == [kind |-> "IRInput", prompt |-> prompt, result |-> res]

IRPrintCall(string_ref) == [kind |-> "IRPrintCall", string_ref |-> string_ref]

IRPrintInt(expression) == [kind |-> "IRPrintInt", expression |-> expression]

Raise(exc, g) == [status |-> "error", exc |-> exc, gen |-> g]

\* LookupVariable with a default value for an unbound name
LookupVariableDefault(g, name) ==
    [status |-> "ok", gen |-> g,
     value |-> IF name \in DOMAIN g.variables THEN g.variables[name]
               ELSE [kind |-> "IRInteger", value |-> W(0)]]

\* the lookup of a Variable in generate_expression
LookupVariable(g, name) ==
    IF name \notin DOMAIN g.variables THEN Raise("NameError", g)
    ELSE [status |-> "ok", value |-> g.variables[name], gen |-> g]

\* the result label IRGenerator.generate_expression gives an Input
InputResultLabel(g) == InputLabel(g.string_count)

\* IRGenerator.generate_expression on generator state g:
\* [status, value, gen] or the exception raised, with the state it left
RECURSIVE ir_generate_expression(_, _)
ir_generate_expression(g, expr) ==
    CASE expr.kind = "IntegerLiteral" ->
           [status |-> "ok", value |-> IRInteger(expr.value), gen |-> g]
      [] expr.kind = "StringLiteral" ->
           LET string_label == StringLabel(g.string_count) IN
           [status |-> "ok",
            value |-> IRStringConstant(expr.value, string_label),
            gen |-> [g EXCEPT
                       !.string_count = @ + 1,
                       !.string_constants =
                           Append(@, IRStringConstant(expr.value, string_label))]]
      [] expr.kind = "BinaryOp" ->
           IF expr.op # "+" THEN Raise("ValueError", g)
           ELSE LET l == ir_generate_expression(g, expr.left) IN
                IF l.status # "ok" THEN l
                ELSE LET r == ir_generate_expression(l.gen, expr.right) IN
                     IF r.status # "ok" THEN r
                     ELSE [status |-> "ok", value |-> IRAdd(l.value, r.value),
                           gen |-> r.gen]
      [] expr.kind = "Variable" -> LookupVariable(g, expr.name)
      [] expr.kind = "Input" ->
           LET prompt_ir == ir_generate_expression(g, expr.prompt) IN
           IF prompt_ir.status # "ok" THEN prompt_ir
           ELSE [status |-> "ok",
                 value |-> IRInput(prompt_ir.value, InputResultLabel(prompt_ir.gen)),
                 gen |-> prompt_ir.gen]
      [] OTHER -> Raise("ValueError", g)

\* AppendInstr inserting at the head of the list
AppendInstrFront(g, instr) == [g EXCEPT !.instructions = <<instr>> \o @]

AppendInstr(g, instr) == [g EXCEPT !.instructions = Append(@, instr)]

\* the lookup of print(<bare variable>) in IRGenerator.generate
PrintLookup(g, name) ==
    IF name \notin DOMAIN g.variables THEN Raise("NameError", g)
    ELSE [status |-> "ok", value |-> g.variables[name], gen |-> g]

\* the dispatch of print(<bare variable>) on the kind of its binding
PrintVariable(g, value) ==
    CASE value.kind = "IRStringConstant" -> AppendInstr(g, IRPrintCall(value.label))
      [] value.kind \in {"IRInteger", "IRAdd"} -> AppendInstr(g, IRPrintInt(value))
      [] value.kind = "IRInput" -> AppendInstr(g, IRPrintCall(value.result))
      [] OTHER -> g

\* the dispatch of print(<any other expression>) on its lowered value
PrintExpression(g, ir_expr) ==
    IF ir_expr.kind = "IRStringConstant"
    THEN AppendInstr(g, IRPrintCall(ir_expr.label))
    ELSE AppendInstr(g, IRPrintInt(ir_expr))

\* Bind keeping the first binding of a name
BindOnce(g, name, value) ==
    IF name \in DOMAIN g.variables THEN g
    ELSE [g EXCEPT !.variables =
            [v \in DOMAIN @ \cup {name} |-> IF v = name THEN value ELSE @[v]]]

\* self.variables[name] = value
Bind(g, name, value) ==
    [g EXCEPT !.variables =
        [v \in DOMAIN @ \cup {name} |-> IF v = name THEN value ELSE @[v]]]

\* AssignInstr that appends nothing
AssignInstrNone(g, statement, value) == g

\* AssignInstr testing the lowered value, not the syntax of the right-hand side
AssignInstrByValue(g, statement, value) ==
    IF value.kind = "IRInput" THEN [g EXCEPT !.instructions = Append(@, value)] ELSE g

\* what an Assignment appends to the instruction list
AssignInstr(g, statement, value) ==
    IF statement.value.kind = "Input" THEN AppendInstr(g, value) ELSE g

\* one iteration of the loop of IRGenerator.generate:
\* [status |-> "ok", gen] or the exception raised
GenerateStatement(g, statement) ==
    CASE statement.kind = "PrintStatement" ->
           IF statement.expression.kind = "Variable"
           THEN LET v == PrintLookup(g, statement.expression.name) IN
                IF v.status # "ok" THEN v
                ELSE [status |-> "ok", gen |-> PrintVariable(g, v.value)]
           ELSE LET e == ir_generate_expression(g, statement.expression) IN
                IF e.status # "ok" THEN e
                ELSE [status |-> "ok", gen |-> PrintExpression(e.gen, e.value)]
      [] statement.kind = "Assignment" ->
           LET e == ir_generate_expression(g, statement.value) IN
           IF e.status # "ok" THEN e
           ELSE [status |-> "ok",
                 gen |-> Bind(AssignInstr(e.gen, statement, e.value),
                              statement.variable.name, e.value)]
      [] OTHER -> [status |-> "ok", gen |-> g]

----------------------------------------------------------------------------
(* AssemblyGenerator: the emitted lines, one record per line.              *)

\* AssemblyGenerator.input_buffer_size
input_buffer_size == 100

BufferLabel == <<"buffer">>

NumberStrLabel == <<"number_str">>

Dir(name) == [op |-> "directive", name |-> name]

Comment(text) == [op |-> "comment", text |-> text]

DefLabel(label) == [op |-> "deflabel", label |-> label]

Local(name) == [op |-> "local", name |-> name]

\* mov rd, #imm with the immediate the generator writes itself
MovImm(rd, imm) == [op |-> "mov_imm", rd |-> rd, imm |-> W(imm)]

\* mov rd, #{value} with the value of an IRInteger
MovValue(rd, value) == [op |-> "mov_imm", rd |-> rd, imm |-> value]

MovLen(rd, label) == [op |-> "mov_len", rd |-> rd, label |-> label]

MovReg(rd, rn) == [op |-> "mov_reg", rd |-> rd, rn |-> rn]

Adrp(rd, label) == [op |-> "adrp", rd |-> rd, label |-> label]

AddPageOff(rd, rn, label) ==
    [op |-> "add_pageoff", rd |-> rd, rn |-> rn, label |-> label]

AddImm(rd, rn, imm) == [op |-> "add_imm", rd |-> rd, rn |-> rn, imm |-> imm]

SubImm(rd, rn, imm) == [op |-> "sub_imm", rd |-> rd, rn |-> rn, imm |-> imm]

AddReg(rd, rn, rm) == [op |-> "add_reg", rd |-> rd, rn |-> rn, rm |-> rm]

Svc == [op |-> "svc", imm |-> 128]

\* a branch to the numeric local label <name>, forward (f) or backward (b)
Branch(op, name, dir) == [op |-> op, name |-> name, dir |-> dir]

\* the ASCII codes the emitted code names: '0' and '\n'
CharZero == 48

CharNewline == 10

\* lines 364-368: a buffer and its length marker for each IRInput instruction
RECURSIVE InputBuffers(_)
InputBuffers(instrs) ==
    IF instrs = <<>> THEN <<>>
    ELSE (IF Head(instrs).kind = "IRInput"
          THEN << DefLabel(Head(instrs).result),
                  [op |-> "space", size |-> input_buffer_size],
                  [op |-> "set_len", label |-> Head(instrs).result,
                   size |-> input_buffer_size] >>
          ELSE <<>>) \o InputBuffers(Tail(instrs))

\* lines 371-374: the bytes and the length marker of each pooled constant
RECURSIVE StringData(_)
StringData(consts) ==
    IF consts = <<>> THEN <<>>
    ELSE << DefLabel(Head(consts).label),
            [op |-> "ascii", value |-> Head(consts).value],
            [op |-> "set_len_here", label |-> Head(consts).label] >>
         \o StringData(Tail(consts))

HasPrintInt(instrs) == \E i \in 1..Len(instrs) : instrs[i].kind = "IRPrintInt"

\* lines 377-381: the digits and the scratch buffer
NumberData(instrs) ==
    IF HasPrintInt(instrs)
    THEN << DefLabel(NumberStrLabel),
            [op |-> "ascii",
             value |-> <<"0", "1", "2", "3", "4", "5", "6", "7", "8", "9", "\\", "n">>],
            DefLabel(BufferLabel),
            [op |-> "fill", count |-> 20, size |-> 1, value |-> 0] >>
    ELSE <<>>

\* generate_expression whose spill does not move the stack pointer: every
\* Add node keeps its left operand in the same stack slot
RECURSIVE asm_generate_expression_one_slot(_)
asm_generate_expression_one_slot(expr) ==
    CASE expr.kind = "IRInteger" -> << MovValue("x0", expr.value) >>
      [] expr.kind = "IRAdd" ->
           asm_generate_expression_one_slot(expr.left)
           \o << [op |-> "str_pre", rt |-> "x0", rn |-> "sp", imm |-> 0] >>
           \o asm_generate_expression_one_slot(expr.right)
           \o << MovReg("x1", "x0"),
                 [op |-> "ldr_post", rt |-> "x0", rn |-> "sp", imm |-> 0],
                 AddReg("x0", "x0", "x1") >>
      [] OTHER -> <<>>

\* AssemblyGenerator.generate_expression: the lines that load expr into x0
RECURSIVE asm_generate_expression(_)
asm_generate_expression(expr) ==
    CASE expr.kind = "IRInteger" -> << MovValue("x0", expr.value) >>
      [] expr.kind = "IRAdd" ->
           asm_generate_expression(expr.left)
           \o << [op |-> "str_pre", rt |-> "x0", rn |-> "sp", imm |-> -16] >>
           \o asm_generate_expression(expr.right)
           \o << MovReg("x1", "x0"),
                 [op |-> "ldr_post", rt |-> "x0", rn |-> "sp", imm |-> 16],
                 AddReg("x0", "x0", "x1") >>
      [] OTHER -> <<>>

\* lines 396-402 and 444-450: write(1, label, len_label)
WriteString(what, label) ==
    << Comment(what),
       MovImm("x0", 1),
       Adrp("x1", label),
       AddPageOff("x1", "x1", label),
       MovLen("x2", label),
       MovImm("x16", 4),
       Svc >>

\* lines 408-440: the conversion of x0 to decimal text and its write
PrintIntCode ==
    << Adrp("x1", BufferLabel),
       AddPageOff("x1", "x1", BufferLabel),
       MovImm("x2", 0),
       MovImm("x3", 10),
       [op |-> "cmp_imm", rn |-> "x0", imm |-> 0],
       Branch("b_ne", "1", "f"),
       MovImm("x4", CharZero),
       [op |-> "strb", rt |-> "w4", rn |-> "x1"],
       MovImm("x2", 1),
       Branch("b", "3", "f"),
       Local("1"),
       [op |-> "cbz", rn |-> "x0", name |-> "2", dir |-> "f"],
       [op |-> "udiv", rd |-> "x4", rn |-> "x0", rm |-> "x3"],
       [op |-> "msub", rd |-> "x5", rn |-> "x4", rm |-> "x3", ra |-> "x0"],
       AddImm("x5", "x5", CharZero),
       [op |-> "strb_reg", rt |-> "w5", rn |-> "x1", rm |-> "x2"],
       AddImm("x2", "x2", 1),
       MovReg("x0", "x4"),
       Branch("b", "1", "b"),
       Local("2"),
       MovImm("x3", 0),
       SubImm("x4", "x2", 1),
       Local("3"),
       MovImm("w4", CharNewline),
       [op |-> "strb_reg", rt |-> "w4", rn |-> "x1", rm |-> "x2"],
       AddImm("x2", "x2", 1),
       MovImm("x0", 1),
       MovImm("x16", 4),
       Svc >>

\* lines 453-462: read(0, result, len_result), then the push of its return value
ReadInputCode(label) ==
    << Comment("Read input from stdin"),
       MovImm("x0", 0),
       Adrp("x1", label),
       AddPageOff("x1", "x1", label),
       MovLen("x2", label),
       MovImm("x16", 3),
       Svc,
       [op |-> "str_pre", rt |-> "x0", rn |-> "sp", imm |-> -16] >>

AttributeError == [status |-> "error", exc |-> "AttributeError"]

HasLabel(value) == value.kind = "IRStringConstant"

\* the body of the loop of lines 393-462 for one instruction:
\* its lines, or the exception raised
InstrCode(instr) ==
    CASE instr.kind = "IRPrintCall" ->
           [status |-> "ok",
            lines |-> WriteString("Write string to stdout", instr.string_ref)]
      [] instr.kind = "IRPrintInt" ->
           [status |-> "ok",
            lines |-> << Comment("Print integer") >>
                      \o asm_generate_expression(instr.expression)
                      \o PrintIntCode]
      [] instr.kind = "IRInput" ->
           IF ~HasLabel(instr.prompt) THEN AttributeError
           ELSE [status |-> "ok",
                 lines |-> WriteString("Print input prompt", instr.prompt.label)
                           \o ReadInputCode(instr.result)]
      [] OTHER -> [status |-> "ok", lines |-> <<>>]

RECURSIVE TextCode(_)
TextCode(instrs) ==
    IF instrs = <<>> THEN [status |-> "ok", lines |-> <<>>]
    ELSE LET h == InstrCode(Head(instrs)) IN
         IF h.status # "ok" THEN h
         ELSE LET t == TextCode(Tail(instrs)) IN
              IF t.status # "ok" THEN t
              ELSE [status |-> "ok", lines |-> h.lines \o t.lines]

\* the tail of the text without the exit call: the run falls into the epilogue
ExitCodeNoExit ==
    << Comment("Exit"),
       MovImm("x0", 0),
       Comment("Restore frame pointer"),
       [op |-> "ldp_post", rt |-> "x29", rt2 |-> "x30", rn |-> "sp", imm |-> 16],
       [op |-> "ret"] >>

\* lines 465-473
ExitCode ==
    << Comment("Exit"),
       MovImm("x0", 0),
       MovImm("x16", 1),
       Svc,
       Comment("Restore frame pointer"),
       [op |-> "ldp_post", rt |-> "x29", rt2 |-> "x30", rn |-> "sp", imm |-> 16],
       [op |-> "ret"] >>

\* AssemblyGenerator.generate: [status |-> "ok", asm] or the exception raised
AsmGenerate(g) ==
    LET text == TextCode(g.instructions) IN
    IF text.status # "ok" THEN text
    ELSE [status |-> "ok",
          asm |-> << Dir(".global _main"), Dir(".align 4"), Dir(".data") >>
                  \o InputBuffers(g.instructions)
                  \o StringData(g.string_constants)
                  \o NumberData(g.instructions)
                  \o << Dir(".text"), DefLabel(<<"_main">>),
                        Comment("Save frame pointer"),
                        [op |-> "stp_pre", rt |-> "x29", rt2 |-> "x30",
                         rn |-> "sp", imm |-> -16],
                        MovReg("x29", "sp") >>
                  \o text.lines
                  \o ExitCode]

----------------------------------------------------------------------------
(* The assembler's view of the emitted lines: the layout of the data       *)
(* section, the symbols it defines and the code of the text section.       *)

\* the character codes of the text the model uses
Ord(c) ==
    CASE c = "h" -> 104 [] c = "i" -> 105 [] c = "a" -> 97 [] c = "n" -> 110
      [] c = "p" -> 112 [] c = "\\" -> 92 [] c = "\"" -> 34
      [] IsDigit(c) -> CharZero + DigitVal(c)
      [] OTHER -> 63

\* the bytes the assembler lays down for .ascii "<value>": a backslash and
\* the character after it are one escape sequence, hence one byte
RECURSIVE AsciiBytes(_)
AsciiBytes(value) ==
    IF value = <<>> THEN <<>>
    ELSE IF Head(value) = "\\" /\ Len(value) >= 2
    THEN LET e == value[2] IN
         << CASE e = "n" -> CharNewline [] e = "t" -> 9 [] e = "r" -> 13
              [] e = "0" -> 0 [] OTHER -> Ord(e) >>
         \o AsciiBytes(SubSeq(value, 3, Len(value)))
    ELSE << Ord(Head(value)) >> \o AsciiBytes(Tail(value))

Zeros(n) == [k \in 1..n |-> 0]

Index(lines, line) == CHOOSE k \in 1..Len(lines) : lines[k] = line

DataLines(asm) ==
    SubSeq(asm, Index(asm, Dir(".data")) + 1, Index(asm, Dir(".text")) - 1)

TextLines(asm) == SubSeq(asm, Index(asm, Dir(".text")) + 1, Len(asm))

PutSym(f, label, v) ==
    [l \in DOMAIN f \cup {label} |-> IF l = label THEN v ELSE f[l]]

\* one pass over the data section, as the assembler makes it: the bytes laid
\* down so far, the address of each label, the value of each len_<label>
\* symbol, and the labels defined more than once
RECURSIVE Layout(_, _)
Layout(lines, acc) ==
    IF lines = <<>> THEN acc
    ELSE LET l == Head(lines) IN
         Layout(Tail(lines),
           CASE l.op = "deflabel" ->
                  [acc EXCEPT !.addr = PutSym(@, l.label, Len(acc.bytes)),
                              !.dup = IF l.label \in DOMAIN acc.addr
                                      THEN @ \cup {l.label} ELSE @]
             [] l.op = "space" -> [acc EXCEPT !.bytes = @ \o Zeros(l.size)]
             [] l.op = "fill" -> [acc EXCEPT !.bytes = @ \o Zeros(l.count * l.size)]
             [] l.op = "ascii" -> [acc EXCEPT !.bytes = @ \o AsciiBytes(l.value)]
             [] l.op = "set_len" -> [acc EXCEPT !.len = PutSym(@, l.label, l.size)]
             [] l.op = "set_len_here" ->
                  [acc EXCEPT !.len = PutSym(@, l.label,
                                             Len(acc.bytes) - acc.addr[l.label])]
             [] OTHER -> acc)

DataLayout(asm) ==
    Layout(DataLines(asm),
           [bytes |-> <<>>, addr |-> EmptyMap, len |-> EmptyMap, dup |-> {}])

\* the data labels and length symbols the text section names
UsedLabels(code) ==
    { code[k].label : k \in { j \in 1..Len(code) :
                              code[j].op \in {"adrp", "add_pageoff"} } }

UsedLens(code) ==
    { code[k].label : k \in { j \in 1..Len(code) : code[j].op = "mov_len" } }

\* whether the assembler and the linker accept the emitted program
Links(asm) ==
    LET d == DataLayout(asm) IN
    /\ d.dup = {}
    /\ UsedLabels(TextLines(asm)) \subseteq DOMAIN d.addr
    /\ UsedLens(TextLines(asm)) \subseteq DOMAIN d.len

\* lines that are no instruction
IsMark(line) == line.op \in {"comment", "local", "deflabel"}

\* the first instruction at or after line k
RECURSIVE SkipMarks(_, _)
SkipMarks(code, k) ==
    IF k <= Len(code) /\ IsMark(code[k]) THEN SkipMarks(code, k + 1) ELSE k

\* the line a reference <n>f or <n>b to a numeric local label means at line k:
\* the nearest definition of <n> after, or before, the reference
LocalTarget(code, k, name, dir) ==
    LET defs == { j \in 1..Len(code) : code[j] = Local(name) }
    IN  IF dir = "f"
        THEN CHOOSE j \in defs : j > k /\ \A j2 \in defs : j2 > k => j <= j2
        ELSE CHOOSE j \in defs : j < k /\ \A j2 \in defs : j2 < k => j2 <= j

----------------------------------------------------------------------------
(* The machine: the registers the emitted code uses, the data section, the *)
(* stack, and the system calls write (4), read (3) and exit (1).           *)

Regs == {"x0", "x1", "x2", "x3", "x4", "x5", "x16", "x29", "x30", "sp"}

\* a w register is the low half of the x register of the same number
X(r) == CASE r = "w4" -> "x4" [] r = "w5" -> "x5" [] OTHER -> r

\* the lengths a read may return: end of input, or a short line
ReadLens == {0, 3}

\* the process at its entry point: the linked image (code, symbols, initial
\* data), the registers (x0 holds argc), an empty stack
MachineBoot(asm) ==
    [status |-> "run",
     code |-> TextLines(asm),
     addr |-> DataLayout(asm).addr,
     len |-> DataLayout(asm).len,
     pc |-> SkipMarks(TextLines(asm), 1),
     regs |-> [r \in Regs |->
                 CASE r = "sp" -> W(4096) [] r = "x0" -> W(1) [] OTHER -> W(0)],
     z |-> FALSE,
     mem |-> DataLayout(asm).bytes,
     stack |-> EmptyMap,
     io |-> <<>>]

Code == m.code

Cur == Code[m.pc]

Running == m.status = "run"

SetReg(mm, r, v) == [mm EXCEPT !.regs[X(r)] = v]

Advance(mm) == [mm EXCEPT !.pc = SkipMarks(Code, mm.pc + 1)]

Jump(mm, name, dir) ==
    [mm EXCEPT !.pc = SkipMarks(Code, LocalTarget(Code, mm.pc, name, dir))]

Addr(label) == m.addr[label]

\* a store of one byte at data address a: the data section's page is
\* writable past the last byte laid down, and nothing is beyond the page
StoreByte(mm, a, v) ==
    CASE a + 1 \in 1..Len(mm.mem) -> [mm EXCEPT !.mem[a + 1] = v % 256]
      [] a + 1 \in (Len(mm.mem) + 1)..4096 ->
           [mm EXCEPT !.mem = @ \o Zeros(a - Len(@)) \o <<v % 256>>]
      [] OTHER -> [mm EXCEPT !.status = "fault"]

Push(mm, a, v) == [mm EXCEPT !.stack = PutSym(@, a, v)]

\* the n bytes at data address a
Bytes(mm, a, n) ==
    [k \in 1..n |-> IF a + k \in 1..Len(mm.mem) THEN mm.mem[a + k] ELSE 0]

\* the fill of a read of n bytes at data address a
ReadBytes(mm, a, n) ==
    IF a + n <= Len(mm.mem)
    THEN [mm EXCEPT !.mem = [k \in 1..Len(@) |->
                               IF k \in (a + 1)..(a + n) THEN Ord("i") ELSE @[k]]]
    ELSE [mm EXCEPT !.status = "fault"]

\* the effect of a register-to-register instruction
ExecALU(mm, c) ==
    CASE c.op = "mov_imm" -> SetReg(mm, c.rd, c.imm)
      [] c.op = "mov_len" -> SetReg(mm, c.rd, W(mm.len[c.label]))
      [] c.op = "mov_reg" -> SetReg(mm, c.rd, mm.regs[X(c.rn)])
      [] c.op = "adrp" -> SetReg(mm, c.rd, W(Addr(c.label) - (Addr(c.label) % 4096)))
      [] c.op = "add_pageoff" ->
           SetReg(mm, c.rd, WAdd(mm.regs[X(c.rn)], W(Addr(c.label) % 4096)))
      [] c.op = "add_imm" -> SetReg(mm, c.rd, WAdd(mm.regs[X(c.rn)], W(c.imm)))
      [] c.op = "sub_imm" -> SetReg(mm, c.rd, WSub(mm.regs[X(c.rn)], W(c.imm)))
      [] c.op = "add_reg" ->
           SetReg(mm, c.rd, WAdd(mm.regs[X(c.rn)], mm.regs[X(c.rm)]))
      \* the divisor and the multiplier of the emitted code are x3 = 10
      [] c.op = "udiv" ->
           SetReg(mm, c.rd, IF mm.regs[X(c.rm)] = W(0) THEN W(0)
                            ELSE WDiv(mm.regs[X(c.rn)], mm.regs[X(c.rm)][1]))
      [] c.op = "msub" ->
           SetReg(mm, c.rd, WSub(mm.regs[X(c.ra)],
                                 WMul(mm.regs[X(c.rn)], mm.regs[X(c.rm)][1])))
      [] c.op = "cmp_imm" -> [mm EXCEPT !.z = (mm.regs[X(c.rn)] = W(c.imm))]

ALUOps ==
    {"mov_imm", "mov_len", "mov_reg", "adrp", "add_pageoff", "add_imm",
     "sub_imm", "add_reg", "udiv", "msub", "cmp_imm"}

StepALU ==
    /\ Running
    /\ Cur.op \in ALUOps
    /\ m' = Advance(ExecALU(m, Cur))
    /\ UNCHANGED <<tokens, pos, statements, ir, stmt, pc, result, job, first>>
    /\ UNCHANGED front

\* b, b.ne, cbz and ret
StepBranch ==
    /\ Running
    /\ Cur.op \in {"b", "b_ne", "cbz", "ret"}
    /\ m' = CASE Cur.op = "b" -> Jump(m, Cur.name, Cur.dir)
              [] Cur.op = "b_ne" ->
                   IF ~m.z THEN Jump(m, Cur.name, Cur.dir) ELSE Advance(m)
              [] Cur.op = "cbz" ->
                   IF m.regs[X(Cur.rn)] = W(0) THEN Jump(m, Cur.name, Cur.dir)
                   ELSE Advance(m)
              [] Cur.op = "ret" -> [m EXCEPT !.status = "returned"]
    /\ UNCHANGED <<tokens, pos, statements, ir, stmt, pc, result, job, first>>
    /\ UNCHANGED front

\* strb to the data section; str, ldr, stp, ldp on the stack
StepMem ==
    /\ Running
    /\ Cur.op \in {"strb", "strb_reg", "str_pre", "ldr_post", "stp_pre", "ldp_post"}
    /\ m' = Advance(
         CASE Cur.op = "strb" ->
                StoreByte(m, Small(m.regs[X(Cur.rn)]), m.regs[X(Cur.rt)][1])
           [] Cur.op = "strb_reg" ->
                StoreByte(m, Small(WAdd(m.regs[X(Cur.rn)], m.regs[X(Cur.rm)])),
                          m.regs[X(Cur.rt)][1])
           [] Cur.op = "str_pre" ->
                LET a == Small(m.regs[Cur.rn]) + Cur.imm IN
                Push(SetReg(m, Cur.rn, W(a)), a, m.regs[X(Cur.rt)])
           [] Cur.op = "ldr_post" ->
                LET a == Small(m.regs[Cur.rn]) IN
                SetReg(SetReg(m, Cur.rt, m.stack[a]), Cur.rn, W(a + Cur.imm))
           [] Cur.op = "stp_pre" ->
                LET a == Small(m.regs[Cur.rn]) + Cur.imm IN
                Push(Push(SetReg(m, Cur.rn, W(a)), a, m.regs[Cur.rt]),
                     a + 8, m.regs[Cur.rt2])
           [] Cur.op = "ldp_post" ->
                LET a == Small(m.regs[Cur.rn]) IN
                SetReg(SetReg(SetReg(m, Cur.rt, m.stack[a]), Cur.rt2, m.stack[a + 8]),
                       Cur.rn, W(a + Cur.imm)))
    /\ UNCHANGED <<tokens, pos, statements, ir, stmt, pc, result, job, first>>
    /\ UNCHANGED front

\* svc with x16 = 4: write(x0, x1, x2), which returns the count written
SysWrite ==
    /\ Running
    /\ Cur.op = "svc"
    /\ m.regs["x16"] = W(4)
    /\ m' = Advance(
         [m EXCEPT !.io = Append(@, [call |-> "write", fd |-> Small(m.regs["x0"]),
                                     addr |-> Small(m.regs["x1"]),
                                     len |-> Small(m.regs["x2"]),
                                     bytes |-> Bytes(m, Small(m.regs["x1"]),
                                                     Small(m.regs["x2"]))]),
                   !.regs["x0"] = m.regs["x2"]])
    /\ UNCHANGED <<tokens, pos, statements, ir, stmt, pc, result, job, first>>
    /\ UNCHANGED front

\* svc with x16 = 3: read(x0, x1, x2), which returns the count read
SysRead ==
    /\ Running
    /\ Cur.op = "svc"
    /\ m.regs["x16"] = W(3)
    /\ \E n \in ReadLens :
         /\ n <= Small(m.regs["x2"])
         /\ m' = Advance(
              [ReadBytes(m, Small(m.regs["x1"]), n) EXCEPT
                 !.io = Append(@, [call |-> "read", fd |-> Small(m.regs["x0"]),
                                   addr |-> Small(m.regs["x1"]),
                                   len |-> Small(m.regs["x2"]),
                                   ret |-> n]),
                 !.regs["x0"] = W(n)])
    /\ UNCHANGED <<tokens, pos, statements, ir, stmt, pc, result, job, first>>
    /\ UNCHANGED front

\* svc with x16 = 1: exit(x0)
SysExit ==
    /\ Running
    /\ Cur.op = "svc"
    /\ m.regs["x16"] = W(1)
    /\ m' = [m EXCEPT !.status = "exited"]
    /\ UNCHANGED <<tokens, pos, statements, ir, stmt, pc, result, job, first>>
    /\ UNCHANGED front

----------------------------------------------------------------------------
(* Source programs: token lists of the grammar the parser accepts, as      *)
(* compile_to_assembly hands them over (one EOF token at the end).         *)

IntTexts == { <<"5">> }

StrTexts == { <<"\"", "h", "i", "\"">> }

Names == { <<"x">>, <<"p">> }

\* the tokens of an integer literal, a string literal and a name
IntegerTokens(text) == <<Token("INTEGER", get_integer(text))>>

StringTokens(text) == <<Token("STRING", get_string(text))>>

NameTokens(n) == <<Token("IDENTIFIER", n)>>

\* the tokens of input(e), print(e) and n = e
InputTokens(e) == <<Tok("INPUT"), Tok("LPAREN")>> \o e \o <<Tok("RPAREN")>>

PrintTokens(e) == <<Tok("PRINT"), Tok("LPAREN")>> \o e \o <<Tok("RPAREN")>>

AssignTokens(n, e) == <<Token("IDENTIFIER", n), Tok("EQUALS")>> \o e

AtomTokens(ints, strs, names) ==
    { IntegerTokens(t) : t \in ints }
    \cup { StringTokens(t) : t \in strs }
    \cup { NameTokens(n) : n \in names }

ExprTokens(ints, strs, names) ==
    AtomTokens(ints, strs, names)
    \cup { InputTokens(a) : a \in AtomTokens(ints, strs, names) }

StmtTokens(ints, strs, names) ==
    { PrintTokens(e) : e \in ExprTokens(ints, strs, names) }
    \cup { AssignTokens(ne[1], ne[2]) :
             ne \in names \X ExprTokens(ints, strs, names) }

RECURSIVE ProgramTokens(_, _)
ProgramTokens(stmts, n) ==
    IF n = 0 THEN { <<>> }
    ELSE LET shorter == ProgramTokens(stmts, n - 1) IN
         shorter \cup { q \o s : q \in shorter, s \in stmts }

\* every proper prefix of a token list: a program that ends inside a statement
Truncations(toks) == { SubSeq(toks, 1, k) : k \in 1..(Len(toks) - 1) }

SourcePrograms ==
    ProgramTokens(StmtTokens(IntTexts, StrTexts, Names), MaxStmts)
    \cup UNION { Truncations(s) : s \in StmtTokens(IntTexts, StrTexts, Names) }

MachineOff == [status |-> "off"]

----------------------------------------------------------------------------
(* compile_to_assembly, from the token list on                             *)

\* the token list is given: the line pass is not looked at
NoSource ==
    /\ source_code = <<>>
    /\ source_lines = <<>>
    /\ line_no = 0
    /\ in_multiline_comment = FALSE
    /\ all_tokens = <<>>

Init ==
    /\ tokens \in { body \o <<Tok("EOF")>> : body \in SourcePrograms }
    /\ pos = 0
    /\ statements = <<>>
    /\ ir = None
    /\ stmt = 0
    /\ pc = "parse"
    /\ result = None
    /\ job = 1
    /\ first = None
    /\ m = MachineOff
    /\ NoSource

\* one iteration of the loop of Parser.parse
ParseStatement ==
    /\ pc = "parse"
    /\ pos < Len(tokens) - 1
    /\ LET r == parse_statement(tokens, pos) IN
       IF r.status = "ok"
       THEN /\ statements' = Append(statements, r.node)
            /\ pos' = r.pos
            /\ UNCHANGED <<pc, result>>
       ELSE /\ result' = r
            /\ pc' = "done"
            /\ UNCHANGED <<statements, pos>>
    /\ UNCHANGED <<tokens, ir, stmt, job, first, m>>
    /\ UNCHANGED front

\* the end of Parser.parse, and the IRGenerator() of compile_to_assembly
ParseEnd ==
    /\ pc = "parse"
    /\ ~(pos < Len(tokens) - 1)
    /\ LET r == consume(tokens, pos, "EOF") IN
       IF r.status = "ok"
       THEN /\ pos' = r.pos
            /\ ir' = IRGeneratorInit
            /\ stmt' = 0
            /\ pc' = "generate"
            /\ UNCHANGED result
       ELSE /\ result' = r
            /\ pc' = "done"
            /\ UNCHANGED <<pos, ir, stmt>>
    /\ UNCHANGED <<tokens, statements, job, first, m>>
    /\ UNCHANGED front

\* one iteration of the loop of IRGenerator.generate
Generate ==
    /\ pc = "generate"
    /\ stmt < Len(statements)
    /\ LET r == GenerateStatement(ir, statements[stmt + 1]) IN
       IF r.status = "ok"
       THEN /\ ir' = r.gen
            /\ stmt' = stmt + 1
            /\ UNCHANGED <<pc, result>>
       ELSE /\ ir' = r.gen
            /\ result' = [status |-> "error", exc |-> r.exc]
            /\ pc' = "done"
            /\ UNCHANGED stmt
    /\ UNCHANGED <<tokens, pos, statements, job, first, m>>
    /\ UNCHANGED front

\* AssemblyGenerator(ir_gen).generate(), whose value compile_to_assembly returns
Assemble ==
    /\ pc = "generate"
    /\ stmt = Len(statements)
    /\ result' = AsmGenerate(ir)
    /\ pc' = "done"
    /\ UNCHANGED <<tokens, pos, statements, ir, stmt, job, first, m>>
    /\ UNCHANGED front

Next == ParseStatement \/ ParseEnd \/ Generate \/ Assemble

Spec == Init /\ [][Next]_vars

----------------------------------------------------------------------------
(* The emitted program, assembled and run.                                 *)

RunInts == { <<"0">>, <<"1", "2">> }

RunStrs == { <<"\"", "h", "i", "\"">>, <<"\"", "a", "\\", "n", "\"">> }

RunPrograms == ProgramTokens(StmtTokens(RunInts, RunStrs, {<<"x">>}), MaxRunStmts)

InitRun ==
    /\ tokens \in { body \o <<Tok("EOF")>> : body \in RunPrograms }
    /\ pos = 0
    /\ statements = <<>>
    /\ ir = None
    /\ stmt = 0
    /\ pc = "parse"
    /\ result = None
    /\ job = 1
    /\ first = None
    /\ m = MachineOff
    /\ NoSource

\* the assembler and the linker, then the start of the process at _main
Boot ==
    /\ pc = "done"
    /\ result.status = "ok"
    /\ m = MachineOff
    /\ m' = IF Links(result.asm) THEN MachineBoot(result.asm)
            ELSE [status |-> "asm_error"]
    /\ UNCHANGED <<tokens, pos, statements, ir, stmt, pc, result, job, first>>
    /\ UNCHANGED front

Step == StepALU \/ StepBranch \/ StepMem \/ SysWrite \/ SysRead \/ SysExit

NextRun == Next \/ Boot \/ Step

SpecRun == InitRun /\ [][NextRun]_vars

----------------------------------------------------------------------------
(* Runs to the end: programs of integer prints, an input and a print of    *)
(* its variable, compiled and run by a scheduler that does not stop them.  *)

MaxExitStmts == 2

ExitStatements ==
    { PrintTokens(IntegerTokens(<<"0">>)),
      PrintTokens(IntegerTokens(<<"1", "2">>)),
      AssignTokens(<<"x">>, InputTokens(StringTokens(<<"\"", "h", "i", "\"">>))),
      PrintTokens(NameTokens(<<"x">>)) }

InitExit ==
    /\ tokens \in { body \o <<Tok("EOF")>> :
                      body \in ProgramTokens(ExitStatements, MaxExitStmts) }
    /\ pos = 0
    /\ statements = <<>>
    /\ ir = None
    /\ stmt = 0
    /\ pc = "parse"
    /\ result = None
    /\ job = 1
    /\ first = None
    /\ m = MachineOff
    /\ NoSource

\* WF: compile_to_assembly and the process are each one thread of control
\* that takes its next step as long as it has one
SpecExit == InitExit /\ [][NextRun]_vars /\ WF_vars(NextRun)

----------------------------------------------------------------------------
(* Two calls of compile_to_assembly on the same source text.               *)

MaxTwiceStmts == 2

InitTwice ==
    /\ tokens \in { body \o <<Tok("EOF")>> :
                      body \in ProgramTokens(StmtTokens(IntTexts, StrTexts, Names),
                                             MaxTwiceStmts) }
    /\ pos = 0
    /\ statements = <<>>
    /\ ir = None
    /\ stmt = 0
    /\ pc = "parse"
    /\ result = None
    /\ job = 1
    /\ first = None
    /\ m = MachineOff
    /\ NoSource

\* the caller keeps the first result and calls compile_to_assembly again
\* on the same text: a new Parser over the same tokens
Recompile ==
    /\ pc = "done"
    /\ job = 1
    /\ first' = result
    /\ job' = 2
    /\ pos' = 0
    /\ statements' = <<>>
    /\ stmt' = 0
    /\ result' = None
    /\ pc' = "parse"
    /\ UNCHANGED <<tokens, ir, m>>
    /\ UNCHANGED front

NextTwice == Next \/ Recompile

SpecTwice == InitTwice /\ [][NextTwice]_vars

----------------------------------------------------------------------------
(* Any token list: what the per-line lexers of compile_to_assembly can     *)
(* hand to the parser, every non-EOF token kind in every order.            *)

MaxTokens == 5

TokenAlphabet ==
    { Tok("PRINT"), Tok("INPUT"), Tok("PLUS"), Tok("LPAREN"), Tok("RPAREN"),
      Tok("EQUALS"), Token("STRING", <<"h", "i">>), Token("INTEGER", <<"5">>),
      Token("IDENTIFIER", <<"x">>) }

TokenLists == UNION { [1..n -> TokenAlphabet] : n \in 0..MaxTokens }

InitTokens ==
    /\ tokens \in { body \o <<Tok("EOF")>> : body \in TokenLists }
    /\ pos = 0
    /\ statements = <<>>
    /\ ir = None
    /\ stmt = 0
    /\ pc = "parse"
    /\ result = None
    /\ job = 1
    /\ first = None
    /\ m = MachineOff
    /\ NoSource

\* WF: compile_to_assembly is one thread of control, which takes its next
\* step as long as it has one
SpecTokens == InitTokens /\ [][Next]_vars /\ WF_vars(Next)

----------------------------------------------------------------------------
(* The line pass of compile_to_assembly: the source text is split into     *)
(* lines, comment lines are dropped, and each remaining line is lexed.     *)

MaxLines == 4

\* str.strip() on a line
RECURSIVE StripLeft(_)
StripLeft(text) ==
    IF text # <<>> /\ IsSpace(Head(text)) THEN StripLeft(Tail(text)) ELSE text

RECURSIVE StripRight(_)
StripRight(text) ==
    IF text # <<>> /\ IsSpace(text[Len(text)])
    THEN StripRight(SubSeq(text, 1, Len(text) - 1)) ELSE text

Strip(text) == StripRight(StripLeft(text))

\* [line.strip() for line in source_code.split('\n') if line.strip()]
RECURSIVE SourceLines(_)
SourceLines(raw) ==
    IF raw = <<>> THEN <<>>
    ELSE (IF Strip(Head(raw)) # <<>> THEN <<Strip(Head(raw))>> ELSE <<>>)
         \o SourceLines(Tail(raw))

\* '"""' in line, tested at the start of the line only
HasTripleQuoteAtStart(text) ==
    Len(text) >= 3 /\ text[1] = "\"" /\ text[2] = "\"" /\ text[3] = "\""

\* '"""' in line
HasTripleQuote(text) ==
    \E i \in 1..(Len(text) - 2) :
       text[i] = "\"" /\ text[i + 1] = "\"" /\ text[i + 2] = "\""

\* line.split('#')[0]
RECURSIVE BeforeHash(_)
BeforeHash(text) ==
    IF text = <<>> \/ Head(text) = "#" THEN <<>>
    ELSE <<Head(text)>> \o BeforeHash(Tail(text))

\* line.split('#')[0].strip()
CodePart(text) == Strip(BeforeHash(text))

\* the raw lines of the source texts the model reads
RawLines ==
    { <<" ", "x", " ", "=", " ", "5">>,
      <<"p", "r", "i", "n", "t", "(", "x", ")">>,
      <<"\"", "\"", "\"">>,
      <<"\"", "\"", "\"", "a", "\"", "\"", "\"">>,
      <<"#", "a">>,
      <<"x", "=", "5", "#", "\"", "\"", "\"">>,
      <<" ">>,
      <<"!">> }

SourceTexts == UNION { [1..n -> RawLines] : n \in 0..MaxLines }

InitLines ==
    /\ source_code \in SourceTexts
    /\ source_lines = <<>>
    /\ line_no = 0
    /\ in_multiline_comment = FALSE
    /\ all_tokens = <<>>
    /\ tokens = <<>>
    /\ pos = 0
    /\ statements = <<>>
    /\ ir = None
    /\ stmt = 0
    /\ pc = "start"
    /\ result = None
    /\ job = 1
    /\ first = None
    /\ m = MachineOff

\* line 493
SplitLines ==
    /\ pc = "start"
    /\ source_lines' = SourceLines(source_code)
    /\ pc' = "strip"
    /\ UNCHANGED <<source_code, line_no, in_multiline_comment, all_tokens>>
    /\ UNCHANGED <<tokens, pos, statements, ir, stmt, result, job, first, m>>

\* one iteration of the loop of lines 499-516
StripLine ==
    /\ pc = "strip"
    /\ line_no < Len(source_lines)
    /\ line_no' = line_no + 1
    /\ LET l == source_lines[line_no + 1] IN
       IF HasTripleQuote(l)
       THEN /\ in_multiline_comment' = ~in_multiline_comment
            /\ UNCHANGED <<all_tokens, pc, result>>
       ELSE IF in_multiline_comment \/ CodePart(l) = <<>>
       THEN UNCHANGED <<in_multiline_comment, all_tokens, pc, result>>
       ELSE LET line_tokens == tokenize(CodePart(l)) IN
            IF line_tokens.status = "ok"
            THEN /\ all_tokens' = all_tokens
                       \o SubSeq(line_tokens.tokens, 1, Len(line_tokens.tokens) - 1)
                 /\ UNCHANGED <<in_multiline_comment, pc, result>>
            ELSE /\ result' = line_tokens
                 /\ pc' = "done"
                 /\ UNCHANGED <<in_multiline_comment, all_tokens>>
    /\ UNCHANGED <<source_code, source_lines>>
    /\ UNCHANGED <<tokens, pos, statements, ir, stmt, job, first, m>>

\* lines 518-525: the final EOF token, and Parser(all_tokens)
StripEnd ==
    /\ pc = "strip"
    /\ line_no = Len(source_lines)
    /\ tokens' = Append(all_tokens, Tok("EOF"))
    /\ pos' = 0
    /\ pc' = "parse"
    /\ UNCHANGED front
    /\ UNCHANGED <<statements, ir, stmt, result, job, first, m>>

NextLines == SplitLines \/ StripLine \/ StripEnd \/ Next

SpecLines == InitLines /\ [][NextLines]_vars

----------------------------------------------------------------------------
(* Integer prints over the width of a register: programs of print(n), n    *)
(* up to the largest 64-bit value, compiled and run.                       *)

MaxConvStmts == 2

\* 0, 7 and 2^64 - 1
ConvInts ==
    { <<"0">>, <<"7">>,
      <<"1", "8", "4", "4", "6", "7", "4", "4", "0", "7",
        "3", "7", "0", "9", "5", "5", "1", "6", "1", "5">> }

InitConv ==
    /\ tokens \in { body \o <<Tok("EOF")>> :
                      body \in ProgramTokens(
                                  { PrintTokens(IntegerTokens(t)) : t \in ConvInts },
                                  MaxConvStmts) }
    /\ pos = 0
    /\ statements = <<>>
    /\ ir = None
    /\ stmt = 0
    /\ pc = "parse"
    /\ result = None
    /\ job = 1
    /\ first = None
    /\ m = MachineOff
    /\ NoSource

\* these programs read nothing
NextConv ==
    Next \/ Boot \/ StepALU \/ StepBranch \/ StepMem \/ SysWrite \/ SysExit

SpecConv == InitConv /\ [][NextConv]_vars

----------------------------------------------------------------------------
(* Sums: AssemblyGenerator.generate given an instruction list whose one    *)
(* PrintInt holds a tree of Integer leaves and Add nodes, and the emitted  *)
(* program run.                                                            *)

MaxDepth == 2

\* the largest 64-bit value
MaxWord == <<Limb - 1, Limb - 1, Limb - 1, Limb - 1>>

AddLeaves == { W(1), MaxWord }

\* the trees of IRInteger and IRAdd nodes nested at most d deep
RECURSIVE IRTrees(_)
IRTrees(d) ==
    IF d = 0 THEN { IRInteger(v) : v \in AddLeaves }
    ELSE IRTrees(d - 1) \cup { IRAdd(l, r) : l \in IRTrees(d - 1), r \in IRTrees(d - 1) }

InitAdd ==
    /\ tokens = <<>>
    /\ pos = 0
    /\ statements = <<>>
    /\ ir \in { [IRGeneratorInit EXCEPT !.instructions = << IRPrintInt(e) >>] :
                   e \in IRTrees(MaxDepth) }
    /\ stmt = 0
    /\ pc = "generate"
    /\ result = None
    /\ job = 1
    /\ first = None
    /\ m = MachineOff
    /\ NoSource

NextAdd == Assemble \/ Boot \/ StepALU \/ StepBranch \/ StepMem \/ SysWrite \/ SysExit

SpecAdd == InitAdd /\ [][NextAdd]_vars

----------------------------------------------------------------------------
(* What the claims speak of.                                               *)

\* IRGenerator.generate has returned without an exception
Lowered == pc = "generate" /\ stmt = Len(statements)

\* compile_to_assembly has returned assembly text
Compiled == pc = "done" /\ result.status = "ok"

Distinct(seq) == \A i, j \in 1..Len(seq) : i # j => seq[i] # seq[j]


\* the labels one compilation has created: one per pooled constant, one per
\* IRInput in the instruction list (as an instruction or as a print's operand)
CreatedLabels(g) ==
    [i \in 1..Len(g.string_constants) |-> g.string_constants[i].label]
    \o LET IsInput(x) == x.kind = "IRInput"
           HasInput(x) == x.kind = "IRPrintInt" /\ x.expression.kind = "IRInput"
           ins == SelectSeq(g.instructions, IsInput)
           ops == SelectSeq(g.instructions, HasInput)
       IN  [i \in 1..Len(ins) |-> ins[i].result]
           \o [i \in 1..Len(ops) |-> ops[i].expression.result]

\* C1: all labels created in one compilation (pooled string constants and
\* IRInput results) are pairwise distinct.
C1_LabelsDistinct == Lowered => Distinct(CreatedLabels(ir))

\* the names an expression of the source reads
RECURSIVE ReadNames(_)
ReadNames(expr) ==
    CASE expr.kind = "Variable" -> {expr.name}
      [] expr.kind = "Input" -> ReadNames(expr.prompt)
      [] OTHER -> {}

StatementReads(statement) ==
    IF statement.kind = "PrintStatement" THEN ReadNames(statement.expression)
    ELSE ReadNames(statement.value)

\* the statement IRGenerator.generate is about to lower reads a name that no
\* lowered assignment has bound
ReadsUndefined ==
    /\ pc = "generate"
    /\ stmt < Len(statements)
    /\ StatementReads(statements[stmt + 1]) \ DOMAIN ir.variables # {}

\* C3: lowering a statement that reads a name before any assignment to it
\* aborts with the undefined-variable error at that statement: nothing is
\* bound or appended, and compile_to_assembly returns no assembly text.
C3_UndefinedVariableAborts ==
    [][ReadsUndefined =>
          /\ pc' = "done"
          /\ result' = [status |-> "error", exc |-> "NameError"]
          /\ stmt' = stmt
          /\ ir'.variables = ir.variables
          /\ ir'.instructions = ir.instructions]_vars

\* the compilation stopped at a first assignment that reads its own target,
\* after at least one statement was lowered
C3_Witness ==
    /\ pc = "done"
    /\ result = [status |-> "error", exc |-> "NameError"]
    /\ stmt >= 1
    /\ stmt < Len(statements)
    /\ statements[stmt + 1].kind = "Assignment"
    /\ statements[stmt + 1].variable.name \in ReadNames(statements[stmt + 1].value)
    /\ statements[stmt + 1].variable.name \notin DOMAIN ir.variables

Last(seq) == seq[Len(seq)]

\* what a print instruction is, and what kind of thing it refers to
Dispatch(instr) ==
    CASE instr.kind = "IRPrintCall" -> <<"PrintString", instr.string_ref[1]>>
      [] instr.kind = "IRPrintInt" -> <<"PrintInt", instr.expression.kind>>
      [] OTHER -> <<instr.kind, "">>

FreshName == <<"v">>

\* the generator after `v = e` followed by `print(v)`, lowered from g
ViaVariable(g, e) ==
    LET bound == GenerateStatement(g,
                    [kind |-> "Assignment",
                     variable |-> [kind |-> "Variable", name |-> FreshName],
                     value |-> e])
    IN  GenerateStatement(bound.gen,
                    [kind |-> "PrintStatement",
                     expression |-> [kind |-> "Variable", name |-> FreshName]]).gen

\* the generator IRGenerator.generate leaves after the first n statements
RECURSIVE LoweredPrefix(_)
LoweredPrefix(n) ==
    IF n = 0 THEN IRGeneratorInit
    ELSE GenerateStatement(LoweredPrefix(n - 1), statements[n]).gen

\* IRGenerator.generate has just lowered print(e), e not a bare variable
PrintedExpression ==
    /\ pc = "generate"
    /\ stmt >= 1
    /\ statements[stmt].kind = "PrintStatement"
    /\ statements[stmt].expression.kind # "Variable"

\* C5: the instruction appended for print(e) has the same kind and the same
\* kind of operand as the one appended for print(v) after v = e.
C5_SameDispatch ==
    PrintedExpression =>
       Dispatch(Last(ir.instructions))
         = Dispatch(Last(ViaVariable(LoweredPrefix(stmt - 1),
                                     statements[stmt].expression).instructions))

\* The system calls of a text section in textual order, each with the call
\* number last moved to x16 and the label last loaded to x1.
RECURSIVE Syscalls(_, _, _)
Syscalls(lines, call, label) ==
    IF lines = <<>> THEN <<>>
    ELSE LET l == Head(lines) IN
         CASE l.op = "svc" ->
                <<[call |-> call, label |-> label]>> \o Syscalls(Tail(lines), call, label)
           [] l.op = "mov_imm" /\ l.rd = "x16" ->
                Syscalls(Tail(lines), Small(l.imm), label)
           [] l.op = "adrp" /\ l.rd = "x1" -> Syscalls(Tail(lines), call, l.label)
           [] OTHER -> Syscalls(Tail(lines), call, label)

TextSyscalls(asm) == Syscalls(TextLines(asm), 0, <<"">>)

IsIO(c) == c.call \in {3, 4}

\* the reads (3) and writes (4) of the emitted text, in order
TextIO == SelectSeq(TextSyscalls(result.asm), IsIO)

CallsOf(io) == [k \in 1..Len(io) |-> io[k].call]

\* the reads and writes the source statements ask for, in order
RECURSIVE StatementCalls(_)
StatementCalls(stmts) ==
    IF stmts = <<>> THEN <<>>
    ELSE (CASE Head(stmts).kind = "PrintStatement" -> <<4>>
            [] Head(stmts).kind = "Assignment" /\ Head(stmts).value.kind = "Input" ->
                 <<4, 3>>
            [] OTHER -> <<>>)
         \o StatementCalls(Tail(stmts))

\* the reads and writes the instruction list asks for, in order, each with
\* the label it is about
RECURSIVE InstrIO(_)
InstrIO(instrs) ==
    IF instrs = <<>> THEN <<>>
    ELSE LET i == Head(instrs) IN
         (CASE i.kind = "IRPrintCall" -> <<[call |-> 4, label |-> i.string_ref]>>
            [] i.kind = "IRPrintInt" -> <<[call |-> 4, label |-> BufferLabel]>>
            [] i.kind = "IRInput" -> <<[call |-> 4, label |-> i.prompt.label],
                                       [call |-> 3, label |-> i.result]>>
            [] OTHER -> <<>>)
         \o InstrIO(Tail(instrs))

\* print -> one print instruction, input assignment -> one IRInput
InstrClass(instr) ==
    IF instr.kind \in {"IRPrintCall", "IRPrintInt"} THEN "print" ELSE instr.kind

RECURSIVE StatementClasses(_)
StatementClasses(stmts) ==
    IF stmts = <<>> THEN <<>>
    ELSE (CASE Head(stmts).kind = "PrintStatement" -> <<"print">>
            [] Head(stmts).kind = "Assignment" /\ Head(stmts).value.kind = "Input" ->
                 <<"IRInput">>
            [] OTHER -> <<>>)
         \o StatementClasses(Tail(stmts))

\* C7: after lowering any prefix of the program the instruction list holds
\* one print instruction per print statement and one IRInput per input
\* assignment, in statement order, and the emitted text holds the code of
\* the instructions in that same order.
C7_OrderPreserved ==
    /\ pc = "generate" =>
         [k \in 1..Len(ir.instructions) |-> InstrClass(ir.instructions[k])]
           = StatementClasses(SubSeq(statements, 1, stmt))
    /\ Compiled => TextIO = InstrIO(ir.instructions)

\* a compiled program of three instructions, an IRInput between two prints
C7_Witness ==
    /\ Compiled
    /\ Len(ir.instructions) = 3
    /\ ir.instructions[1].kind = "IRPrintInt"
    /\ ir.instructions[2].kind = "IRInput"
    /\ ir.instructions[3].kind = "IRPrintCall"

IsInputAssignment(statement) ==
    statement.kind = "Assignment" /\ statement.value.kind = "Input"

\* the program is `x = input("...")` followed by `print(x)`
InputThenPrint ==
    /\ Len(statements) = 2
    /\ IsInputAssignment(statements[1])
    /\ statements[1].value.prompt.kind = "StringLiteral"
    /\ statements[2] = [kind |-> "PrintStatement",
                        expression |-> statements[1].variable]

\* C4: the emitted text holds one prompt write and one read per input
\* assignment and one write per print, in statement order, and nothing else;
\* for `x = input("p")` then `print(x)` these are the write of the prompt
\* constant, the read into the result buffer and the write of that buffer.
C4_InputRoundTrip ==
    Compiled =>
       /\ CallsOf(TextIO) = StatementCalls(statements)
       /\ \A k \in 1..Len(TextIO) :
             TextIO[k].call = 3 =>
                /\ TextIO[k].label[1] = "input_result_"
                /\ TextIO[k - 1].call = 4
                /\ \E c \in 1..Len(ir.string_constants) :
                      ir.string_constants[c].label = TextIO[k - 1].label
       /\ InputThenPrint =>
             /\ Len(TextIO) = 3
             /\ TextIO[1] = [call |-> 4, label |-> ir.string_constants[1].label]
             /\ TextIO[2].call = 3
             /\ TextIO[3] = [call |-> 4, label |-> TextIO[2].label]

\* compiled: an input, a copy of its variable, a print of the copy
C4_Witness ==
    /\ Compiled
    /\ Len(statements) = 3
    /\ IsInputAssignment(statements[1])
    /\ statements[2].kind = "Assignment"
    /\ statements[2].value = statements[1].variable
    /\ statements[2].variable # statements[1].variable
    /\ statements[3] = [kind |-> "PrintStatement",
                        expression |-> statements[2].variable]
    /\ Len(TextIO) = 3

\* C9: a second compile_to_assembly of the same source text returns what the
\* first returned, the same assembly text or the same error.
C9_Deterministic == (job = 2 /\ pc = "done") => result = first

\* the second call has returned text that names a pooled constant and an
\* input buffer
C9_Witness ==
    /\ job = 2
    /\ Compiled
    /\ first.status = "ok"
    /\ \E k \in 1..Len(ir.instructions) : ir.instructions[k].kind = "IRInput"
    /\ Len(ir.string_constants) >= 2

\* the process was started: the emitted program assembled and linked
Started == m.status \in {"run", "exited", "returned", "fault"}

\* the decimal digits of n, most significant first, as character codes
RECURSIVE Decimal(_)
Decimal(n) ==
    IF Small(n) \in 0..9 THEN <<CharZero + Small(n)>>
    ELSE Decimal(WDiv(n, 10)) \o <<CharZero + Small(WSub(n, WMul(WDiv(n, 10), 10)))>>

IsBufferWrite(e) == e.call = "write" /\ e.addr = Addr(BufferLabel)

IsPrintInt(i) == i.kind = "IRPrintInt"

\* C2: the write of an IRPrintInt of the integer n passes exactly the decimal
\* digits of n, most significant first, and one newline: digits(n) + 1 bytes.
C2_DecimalWritten ==
    (Started /\ HasPrintInt(ir.instructions)) =>
       LET writes == SelectSeq(m.io, IsBufferWrite)
           prints == SelectSeq(ir.instructions, IsPrintInt)
       IN  \A k \in 1..Len(writes) :
              prints[k].expression.kind = "IRInteger" =>
                 /\ writes[k].bytes
                      = Decimal(prints[k].expression.value) \o <<CharNewline>>
                 /\ writes[k].len = Len(Decimal(prints[k].expression.value)) + 1

\* the latest read into the buffer at address a before event j, or 0
LastRead(a, j) ==
    LET rs == { i \in 1..(j - 1) : m.io[i].call = "read" /\ m.io[i].addr = a }
    IN  IF rs = {} THEN 0 ELSE CHOOSE i \in rs : \A i2 \in rs : i2 <= i

\* C6: a print of a variable bound to an input writes the number of bytes
\* the read returned, never the capacity of the buffer.
C6_PrintsRetainedLength ==
    Started =>
       \A j \in 1..Len(m.io) :
          (m.io[j].call = "write" /\ LastRead(m.io[j].addr, j) # 0) =>
             m.io[j].len = m.io[LastRead(m.io[j].addr, j)].ret

\* C10: the length marker of every pooled string constant is the number of
\* bytes of the literal as it stood between the quotes in the source.
C10_LengthMarkerIsLiteralLength ==
    (Compiled /\ Links(result.asm)) =>
       \A k \in 1..Len(ir.string_constants) :
          DataLayout(result.asm).len[ir.string_constants[k].label]
            = Len(ir.string_constants[k].value)

\* the exit sequence is the last system call of the text, and the only exit
ExitOnceAtEnd ==
    Compiled =>
       LET sc == TextSyscalls(result.asm) IN
       /\ Len(sc) >= 1
       /\ sc[Len(sc)].call = 1
       /\ \A k \in 1..(Len(sc) - 1) : sc[k].call # 1

\* the process never returns from _main and never stops early: when it has
\* exited, with status 0, every instruction's reads and writes were made
NoEarlyExit ==
    Started =>
       /\ m.status # "returned"
       /\ m.status = "exited" =>
            /\ m.regs["x0"] = W(0)
            /\ [k \in 1..Len(m.io) |-> IF m.io[k].call = "read" THEN 3 ELSE 4]
                 = CallsOf(InstrIO(ir.instructions))

\* C8: the exit sequence is emitted once, after the code of every
\* instruction, and every run of the emitted code reaches it; no run exits
\* or returns earlier.
C8_ExitReached ==
    /\ [](ExitOnceAtEnd /\ NoEarlyExit)
    /\ (Running ~> m.status = "exited")

\* exited after two integer prints, the first through the conversion loop
\* and the second through the branch for zero
C8_Witness ==
    /\ m.status = "exited"
    /\ Len(ir.instructions) = 2
    /\ \A k \in 1..2 : ir.instructions[k].kind = "IRPrintInt"
    /\ Len(m.io) = 2
    /\ m.io[1].len = 3
    /\ m.io[2].len = 2

\* C11: after lowering any program, no two entries of the string-constant
\* pool carry the same string value.
C11_PoolDeduplicated ==
    Lowered =>
       \A i, j \in 1..Len(ir.string_constants) :
          i # j => ir.string_constants[i].value # ir.string_constants[j].value

\* an operand AssemblyGenerator.generate_expression has code for
RECURSIVE Evaluable(_)
Evaluable(expr) ==
    CASE expr.kind = "IRInteger" -> TRUE
      [] expr.kind = "IRAdd" -> Evaluable(expr.left) /\ Evaluable(expr.right)
      [] OTHER -> FALSE

\* an instruction whose operand the assembly generator cannot evaluate
Unevaluable(instr) ==
    \/ instr.kind = "IRPrintInt" /\ ~Evaluable(instr.expression)
    \/ instr.kind = "IRInput" /\ instr.prompt.kind # "IRStringConstant"

\* AssemblyGenerator.generate was called and has returned or raised
Assembled == pc = "done" /\ ir # None /\ stmt = Len(statements)

\* C12: when an instruction's operand cannot be evaluated, assembly
\* generation fails with an error and returns no assembly text.
C12_UnevaluableOperandFails ==
    (Assembled /\ \E k \in 1..Len(ir.instructions) : Unevaluable(ir.instructions[k]))
       => result.status = "error"

\* the token list ends inside a statement
EndsInsideStatement ==
    SubSeq(tokens, 1, Len(tokens) - 1)
       \in UNION { Truncations(s) : s \in StmtTokens(IntTexts, StrTexts, Names) }

\* C13: a token list that ends inside a statement is rejected with a parse
\* error that names the expected token kind, before any IRGenerator exists:
\* no instruction, pooled constant or assembly text is produced.
C13_TruncatedInputNamesExpected ==
    (EndsInsideStatement /\ pc = "done") =>
       /\ result.status = "error"
       /\ result.exc = "SyntaxError"
       /\ "expected" \in DOMAIN result
       /\ ir = None

\* the names assigned by the first n statements
AssignedNames(n) ==
    { statements[k].variable.name :
        k \in { j \in 1..n : statements[j].kind = "Assignment" } }

\* the most recent assignment to name among the first n statements
LastAssignment(n, name) ==
    CHOOSE k \in 1..n :
       /\ statements[k].kind = "Assignment"
       /\ statements[k].variable.name = name
       /\ \A j \in (k + 1)..n :
             ~(statements[j].kind = "Assignment" /\ statements[j].variable.name = name)

\* what name stands for after the first n statements, read off the source:
\* the kind and the content of the right-hand side last assigned to it, a
\* variable on the right standing for what it stood for at that statement
RECURSIVE Denotes(_, _)
Denotes(n, name) ==
    LET k == LastAssignment(n, name)
        e == statements[k].value
    IN  CASE e.kind = "IntegerLiteral" -> <<"IRInteger", <<e.value>>>>
          [] e.kind = "StringLiteral" -> <<"IRStringConstant", e.value>>
          [] e.kind = "Variable" -> Denotes(k - 1, e.name)
          [] OTHER -> <<"IR" \o e.kind, <<>>>>

\* the kind and the content of an IR value
Abstract(value) ==
    CASE value.kind = "IRInteger" -> <<"IRInteger", <<value.value>>>>
      [] value.kind = "IRStringConstant" -> <<"IRStringConstant", value.value>>
      [] OTHER -> <<value.kind, <<>>>>

\* the instruction a print of a bare variable is to append for its binding
PrintOfBinding(value) ==
    CASE value.kind = "IRStringConstant" -> IRPrintCall(value.label)
      [] value.kind = "IRInput" -> IRPrintCall(value.result)
      [] OTHER -> IRPrintInt(value)

\* C15: after lowering any prefix of the program the symbol table binds
\* exactly the assigned names, each to the value of the most recent assignment
\* to it (a copy keeps the value its source had when it was copied), and a
\* print of a bare variable appends the instruction of that stored binding.
C15_SymbolTableBindsLatest ==
    pc = "generate" =>
       /\ DOMAIN ir.variables = AssignedNames(stmt)
       /\ \A name \in DOMAIN ir.variables :
             Abstract(ir.variables[name]) = Denotes(stmt, name)
       /\ (/\ stmt >= 1
           /\ statements[stmt].kind = "PrintStatement"
           /\ statements[stmt].expression.kind = "Variable") =>
             Last(ir.instructions)
               = PrintOfBinding(ir.variables[statements[stmt].expression.name])

\* lowered: a = <integer>, b = a, a = <something else>; b keeps the integer
C15_Witness ==
    /\ pc = "generate"
    /\ stmt = 3
    /\ \A k \in 1..3 : statements[k].kind = "Assignment"
    /\ statements[1].value.kind = "IntegerLiteral"
    /\ statements[2].value = statements[1].variable
    /\ statements[2].variable # statements[1].variable
    /\ statements[3].variable = statements[1].variable
    /\ statements[3].value.kind = "StringLiteral"
    /\ ir.variables[statements[2].variable.name] = IRInteger(statements[1].value.value)
    /\ ir.variables[statements[1].variable.name].kind = "IRStringConstant"

HasPlus == \E k \in 1..Len(tokens) : tokens[k].type = "PLUS"

\* whether an AST expression holds a BinaryOp node
RECURSIVE HasBinaryOp(_)
HasBinaryOp(expr) ==
    CASE expr.kind = "BinaryOp" -> TRUE
      [] expr.kind = "Input" -> HasBinaryOp(expr.prompt)
      [] OTHER -> FALSE

\* whether an IR value or instruction holds an IRAdd
RECURSIVE HasIRAdd(_)
HasIRAdd(value) ==
    CASE value.kind = "IRAdd" -> TRUE
      [] value.kind = "IRInput" -> HasIRAdd(value.prompt)
      [] value.kind = "IRPrintInt" -> HasIRAdd(value.expression)
      [] OTHER -> FALSE

\* C17: the parser never moves past a Plus token; a token list that holds
\* one is rejected with a syntax error before any IRGenerator exists, no
\* parsed statement holds a BinaryOp, and no IRAdd is bound or appended.
C17_PlusNeverConsumed ==
    /\ \A k \in 1..pos : tokens[k].type # "PLUS"
    /\ (HasPlus /\ pc # "parse") =>
          /\ pc = "done"
          /\ result.status = "error"
          /\ result.exc = "SyntaxError"
          /\ ir = None
    /\ \A k \in 1..Len(statements) :
          ~HasBinaryOp(IF statements[k].kind = "Assignment"
                       THEN statements[k].value ELSE statements[k].expression)
    /\ ir # None =>
          /\ \A name \in DOMAIN ir.variables : ~HasIRAdd(ir.variables[name])
          /\ \A k \in 1..Len(ir.instructions) : ~HasIRAdd(ir.instructions[k])

\* rejected at a Plus token that follows a complete assignment of an integer
C17_Witness ==
    /\ pc = "done"
    /\ result.status = "error"
    /\ Len(statements) = 1
    /\ statements[1].kind = "Assignment"
    /\ statements[1].value.kind = "IntegerLiteral"
    /\ tokens[pos + 1].type = "PLUS"

\* one step of the parser: the position moves forward by at least one token,
\* or the parse is over (the tokens are consumed or a syntax error was raised)
ParserAdvances ==
    pc = "parse" =>
       \/ pc' = "parse" /\ pos' > pos
       \/ pc' = "generate" /\ pos' = Len(tokens)
       \/ pc' = "done" /\ result'.status = "error" /\ result'.exc = "SyntaxError"

\* the position stays on a token while parsing, and no access was out of range
ParserInRange ==
    /\ pc = "parse" => pos \in 0..(Len(tokens) - 1)
    /\ pos <= Len(tokens)
    /\ pc = "done" => result # IndexError

\* C19: on every token list that ends with its one EOF token Parser.parse
\* terminates: each call of parse_statement moves the position forward or
\* raises a syntax error, the position never passes the EOF token before the
\* closing consume, and no token access is out of range.
C19_ParserTerminates ==
    /\ [][ParserAdvances]_vars
    /\ []ParserInRange
    /\ (pc = "parse") ~> (pc # "parse")

\* parsed to the end: a print statement of four tokens, then the closing
\* consume on the EOF token
C19_Witness ==
    /\ pc = "generate"
    /\ Len(statements) = 1
    /\ statements[1].kind = "PrintStatement"
    /\ Len(tokens) = 5
    /\ pos = Len(tokens)

PoolLabels(g) == { g.string_constants[k].label : k \in 1..Len(g.string_constants) }

InputResults(g) ==
    { g.instructions[k].result :
        k \in { j \in 1..Len(g.instructions) : g.instructions[j].kind = "IRInput" } }

\* every data label the text section names is declared in the data section
\* together with a length marker
EveryLabelWithMarker ==
    Compiled =>
       LET d == DataLayout(result.asm) IN
       UsedLabels(TextLines(result.asm)) \subseteq (DOMAIN d.addr \cap DOMAIN d.len)

\* C20: in every returned assembly text, every data label and every length
\* marker the text section names is declared in the data section; the labels
\* of strings and input results are declared together with their length
\* marker, the scratch buffer without one (its length is counted in x2); a
\* print on an input result comes from an IRInput of the instruction list,
\* and every string label and prompt label comes from the pool.
C20_ReferencedLabelsDeclared ==
    Compiled =>
       LET d == DataLayout(result.asm)
           code == TextLines(result.asm)
       IN  /\ UsedLabels(code) \subseteq DOMAIN d.addr
           /\ UsedLens(code) \subseteq DOMAIN d.len
           /\ UsedLabels(code) \ {BufferLabel} \subseteq DOMAIN d.len
           /\ BufferLabel \notin DOMAIN d.len
           /\ \A k \in 1..Len(ir.instructions) :
                 LET i == ir.instructions[k] IN
                 /\ i.kind = "IRPrintCall" =>
                       i.string_ref \in PoolLabels(ir) \cup InputResults(ir)
                 /\ i.kind = "IRInput" => i.prompt.label \in PoolLabels(ir)

\* compiled: an input, a print of its variable and a print of an integer
C20_Witness ==
    /\ Compiled
    /\ Len(ir.instructions) = 3
    /\ ir.instructions[1].kind = "IRInput"
    /\ ir.instructions[2] = IRPrintCall(ir.instructions[1].result)
    /\ ir.instructions[3].kind = "IRPrintInt"
    /\ BufferLabel \in UsedLabels(TextLines(result.asm))

\* the positions of a line at which a triple double quote starts
Delimiters(text) ==
    { i \in 1..(Len(text) - 2) :
        text[i] = "\"" /\ text[i + 1] = "\"" /\ text[i + 2] = "\"" }

\* how many of the first n lines hold a delimiter
DelimiterLines(n) ==
    Cardinality({ k \in 1..n : Delimiters(source_lines[k]) # {} })

\* line k holds no delimiter and follows an even number of delimiter lines
Kept(k) == Delimiters(source_lines[k]) = {} /\ DelimiterLines(k - 1) % 2 = 0

\* the tokens the lexer gives for line k, without its EOF token
TokensOf(k) ==
    LET t == tokenize(CodePart(source_lines[k])) IN
    IF t.status = "ok" THEN SubSeq(t.tokens, 1, Len(t.tokens) - 1) ELSE <<>>

\* the tokens of the kept lines among the first n, in order
RECURSIVE TokensOfKept(_)
TokensOfKept(n) ==
    IF n = 0 THEN <<>>
    ELSE TokensOfKept(n - 1) \o (IF Kept(n) THEN TokensOf(n) ELSE <<>>)

\* the lexer raised on the line the loop took last
LexFailed == pc = "done" /\ ir = None /\ tokens = <<>>

\* C18: the skip mode starts off and is on exactly after an odd number of
\* lines that hold a triple double quote, however many the line holds; the
\* tokens collected are those of the lines that hold none and are reached
\* with the skip mode off; a line that holds one, or is reached with the skip
\* mode on, is dropped without being lexed and without an error.
C18_SkipModeToggles ==
    /\ pc = "start" => ~in_multiline_comment
    /\ pc # "start" =>
          /\ in_multiline_comment = (DelimiterLines(line_no) % 2 = 1)
          /\ all_tokens = TokensOfKept(line_no)
    /\ LexFailed => Kept(line_no)
    /\ (pc = "strip" /\ line_no >= 1 /\ Kept(line_no)) =>
          tokenize(CodePart(source_lines[line_no])).status = "ok"
    /\ pc \in {"parse", "generate"} =>
          tokens = Append(TokensOfKept(Len(source_lines)), Tok("EOF"))

\* the pass is over with the skip mode on: a kept line of code, then a line
\* with two delimiters, then a line of code that was dropped
C18_Witness ==
    /\ pc = "parse"
    /\ in_multiline_comment
    /\ Len(source_lines) = 3
    /\ Kept(1)
    /\ all_tokens = TokensOf(1)
    /\ all_tokens # <<>>
    /\ Cardinality(Delimiters(source_lines[2])) >= 2
    /\ Delimiters(source_lines[3]) = {}
    /\ TokensOf(3) # <<>>

\* the lines of the data section that declare the scratch buffer
ScratchBuffers(asm) ==
    { k \in 1..Len(DataLines(asm)) : DataLines(asm)[k] = DefLabel(BufferLabel) }

\* the declared size of the scratch buffer: the .fill that follows its label
ScratchSize(asm) ==
    LET fill == DataLines(asm)[(CHOOSE k \in ScratchBuffers(asm) : TRUE) + 1]
    IN  fill.count * fill.size

\* the data address the store the machine is about to make writes to
StoreAddress ==
    IF Cur.op = "strb" THEN Small(m.regs[X(Cur.rn)])
    ELSE Small(WAdd(m.regs[X(Cur.rn)], m.regs[X(Cur.rm)]))

\* C14: one scratch buffer is declared when the instruction list holds an
\* IRPrintInt and none when it holds none, and every byte the conversion code
\* stores for a 64-bit value, the newline included, lies inside the declared
\* size of the buffer.
C14_ScratchBufferHoldsConversion ==
    /\ Compiled =>
          IF HasPrintInt(ir.instructions)
          THEN Cardinality(ScratchBuffers(result.asm)) = 1
          ELSE ScratchBuffers(result.asm) = {}
    /\ (Running /\ Cur.op \in {"strb", "strb_reg"}) =>
          StoreAddress - Addr(BufferLabel) \in 0..(ScratchSize(result.asm) - 1)

\* the expression of the one PrintInt of the instruction list
Tree == ir.instructions[1].expression

\* the sum of the leaves of a tree, modulo 2^64
RECURSIVE Sum(_)
Sum(e) == IF e.kind = "IRAdd" THEN WAdd(Sum(e.left), Sum(e.right)) ELSE e.value

\* the number of Add nodes of a tree
RECURSIVE Adds(_)
Adds(e) == IF e.kind = "IRAdd" THEN 1 + Adds(e.left) + Adds(e.right) ELSE 0

\* the line after the code of the expression: the first line of the
\* conversion that follows it
ExprEnd == Index(Code, Adrp("x1", BufferLabel))

\* the lines of the running program that evaluate the expression
ExprLines == (ExprEnd - Len(asm_generate_expression(Tree)))..(ExprEnd - 1)

Spills == { k \in ExprLines : Code[k].op = "str_pre" }

Restores == { k \in ExprLines : Code[k].op = "ldr_post" }

\* for each Add node of a tree whose code starts after line base: the line
\* of its restore and the values of its two operands
RECURSIVE RestoreSites(_, _)
RestoreSites(e, base) ==
    IF e.kind # "IRAdd" THEN {}
    ELSE LET l == Len(asm_generate_expression(e.left))
             r == Len(asm_generate_expression(e.right))
         IN  RestoreSites(e.left, base)
             \cup RestoreSites(e.right, base + l + 1)
             \cup { [at |-> base + l + 1 + r + 2,
                     left |-> Sum(e.left), right |-> Sum(e.right)] }

\* C16: the code emitted for a tree of Integer leaves and Add nodes is
\* straight-line code with one spill and one restore per Add node that leaves
\* x29 alone; each restore finds on top of the stack the value of the left
\* operand of its own Add node, the right operand's value being in x1; and
\* when the code has run, x0 holds the sum of the leaves modulo 2^64 and the
\* stack pointer is what it was before the code (the value x29 was given
\* from sp on the line before it).
C16_AddEvaluation ==
    Running =>
      /\ \A k \in ExprLines :
            Code[k].op \in {"mov_imm", "mov_reg", "add_reg", "str_pre", "ldr_post"}
      /\ \A k \in ExprLines :
            Code[k].op \in {"mov_imm", "mov_reg", "add_reg"} => Code[k].rd \in {"x0", "x1"}
      /\ \A k \in Spills \cup Restores : Code[k].rt = "x0" /\ Code[k].rn = "sp"
      /\ Cardinality(Spills) = Adds(Tree)
      /\ Cardinality(Restores) = Adds(Tree)
      /\ Restores = { s.at : s \in RestoreSites(Tree, ExprEnd - Len(asm_generate_expression(Tree)) - 1) }
      /\ \A s \in RestoreSites(Tree, ExprEnd - Len(asm_generate_expression(Tree)) - 1) :
            m.pc = s.at =>
              /\ m.stack[Small(m.regs["sp"])] = s.left
              /\ m.regs["x1"] = s.right
      /\ m.pc = ExprEnd =>
              /\ m.regs["x0"] = Sum(Tree)
              /\ m.regs["sp"] = m.regs["x29"]

\* 1 + ((2^64 - 1) + (2^64 - 1)) has been evaluated: the sum wraps, and the
\* right operand is itself a sum
C16_Witness ==
    /\ Running
    /\ Tree = IRAdd(IRInteger(W(1)), IRAdd(IRInteger(MaxWord), IRInteger(MaxWord)))
    /\ m.pc = ExprEnd
    /\ m.regs["x0"] = MaxWord

=============================================================================
